---- MODULE Spec2Model ----
(***************************************************************************)
(* A model of renpy/sl2/slast.py: the abstract syntax tree of a screen    *)
(* language screen, its prepare pass (constant folding) and its execute   *)
(* and keywords passes.                                                    *)
(*                                                                         *)
(* Python values are modelled as strings, a string being a tuple of       *)
(* tokens, so that concatenation (style_group + "_") is \o.  None and the *)
(* identity sentinels of the source are distinguished one-token strings.  *)
(* A Python "x or None" attribute is a tuple of length 0 (None) or 1.     *)
(***************************************************************************)
EXTENDS Integers, Sequences, FiniteSets, TLC

VARIABLES
    nodes,              \* the node tree: identity -> attributes
    serial,             \* the module's serial number
    store,              \* the evaluator's default namespace
    widget_properties,  \* renpy.ui.screen.widget_properties
    widgets,            \* renpy.ui.screen.widgets
    imagemap_stack,     \* renpy.ui.imagemap_stack
    scope,              \* context.scope of the last top-level execute
    context,            \* the rest of that context
    err,                \* the exception it raised, or NoErr
    trace,              \* history of the last top-level execute
    nprep, nexec,       \* the number of prepare and of execute calls so far
    last,               \* the last call: "init", "prepare" or "execute"
    scope0,             \* history: the scope the last execute started with
    nodes0              \* history: the nodes as the last prepare left them

vars == <<nodes, serial, store, widget_properties, widgets, imagemap_stack,
          scope, context, err, trace, nprep, nexec, last, scope0, nodes0>>

\* The number of top-level execute calls and of prepare calls in a behaviour.
MaxExec == 2
MaxPrep == 2

(***************************************************************************)
(* Values                                                                  *)
(***************************************************************************)
None == <<"#None">>

\* "A sentinel used to indicate we should use the value found in the
\* expression."
use_expression == <<"#use_expression">>

\* "A sentinel used to indicate a keyword argument was not given."
NotGiven == <<"#NotGiven">>

\* The reference to the scope mapping of the running execution.
ScopeRef == <<"#scope">>

\* The reference to the k-th SLContext created by SLDisplayable.execute.
CtxRef(k) == <<"#ctx">> \o [i \in 1..k |-> "|"]

\* Python truthiness of a value.
Truthy(v) == v \notin {None, <<>>, <<"0">>, <<"False">>}

Absent == <<>>
Some(x) == <<x>>

EmptyMap == <<>>

\* dict.update
Update(m, u) ==
    [k \in (DOMAIN m) \cup (DOMAIN u) |-> IF k \in DOMAIN u THEN u[k] ELSE m[k]]

\* dict.pop(key, default): the value and the remaining mapping.
Pop(m, key, default) ==
    [v |-> IF key \in DOMAIN m THEN m[key] ELSE default,
     m |-> [k \in (DOMAIN m) \ {key} |-> m[k]]]

\* m[key] = v
Put(m, key, v) == [k \in (DOMAIN m) \cup {key} |-> IF k = key THEN v ELSE m[k]]

\* The mapping built from a sequence of <<key, value>> pairs, a later pair
\* replacing an earlier one with the same key.
RECURSIVE PairsToMap(_)
PairsToMap(ps) ==
    IF ps = <<>> THEN EmptyMap
    ELSE Put(PairsToMap(SubSeq(ps, 1, Len(ps) - 1)), ps[Len(ps)][1], ps[Len(ps)][2])

(***************************************************************************)
(* Expressions, and the expression compiler and evaluator.                 *)
(* An expression is a literal (k = "const", v its value) or a name         *)
(* (k = "name", v the one-token string of the name).                       *)
(***************************************************************************)
Const(v) == [k |-> "const", v |-> v]
Name(n) == [k |-> "name", v |-> <<n>>]

is_constant(e) == e.k = "const"

\* py_compile(expr, 'eval') and compile_expr(node): the compiled unit of one
\* expression, of a tuple of expressions, or of a dict display.
py_compile(e) == [co |-> Some(e)]
CompileTuple(es) == [co |-> es]
CompileDict(keys, es) == [co |-> [i \in 1..Len(es) |-> <<keys[i], es[i]>>]]

\* The value of an expression under globals g and locals l: a name is looked
\* up in the locals, then in the globals; an unbound name is a NameError.
EvalExpr(e, g, l) ==
    IF e.k = "const" THEN [ok |-> TRUE, v |-> e.v]
    ELSE IF e.v[1] \in DOMAIN l THEN [ok |-> TRUE, v |-> l[e.v[1]]]
    ELSE IF e.v[1] \in DOMAIN g THEN [ok |-> TRUE, v |-> g[e.v[1]]]
    ELSE [ok |-> FALSE, v |-> None]

\* py_eval_bytecode(bytecode, globals, locals) of a single expression.
py_eval_bytecode(bc, g, l) == EvalExpr(bc.co[1], g, l)

\* py_eval_bytecode of a compiled tuple: the tuple of the values.
EvalTuple(bc, g, l) ==
    [ok |-> \A i \in 1..Len(bc.co) : EvalExpr(bc.co[i], g, l).ok,
     v |-> [i \in 1..Len(bc.co) |-> EvalExpr(bc.co[i], g, l).v]]

\* py_eval_bytecode of a compiled dict display: the mapping.
EvalDict(bc, g, l) ==
    [ok |-> \A i \in 1..Len(bc.co) : EvalExpr(bc.co[i][2], g, l).ok,
     v |-> PairsToMap([i \in 1..Len(bc.co) |->
                          <<bc.co[i][1], EvalExpr(bc.co[i][2], g, l).v>>])]

(***************************************************************************)
(* Nodes.  nodes maps a node's identity to its attributes: the declared    *)
(* ones set by __init__ and the parser, and the compiled ones set by       *)
(* prepare (Absent until then).                                            *)
(***************************************************************************)
Blank(kind) ==
    [kind |-> kind, serial |-> Absent,
     keyword |-> <<>>, children |-> <<>>,
     displayable |-> "", scope |-> FALSE, style |-> <<>>,
     pass_context |-> FALSE, imagemap |-> FALSE, positional |-> <<>>,
     entries |-> <<>>, variable |-> "", expression |-> <<>>,
     keyword_values |-> Absent, keyword_exprs |-> Absent,
     positional_values |-> Absent, positional_exprs |-> Absent,
     prepared_entries |-> <<>>,
     expression_value |-> Absent, expression_expr |-> Absent,
     expr |-> Absent]

\* Indices of a sequence selected by a predicate, kept in order.
RECURSIVE Select(_, _)
Select(s, keep) ==
    IF s = <<>> THEN <<>>
    ELSE LET r == Select(SubSeq(s, 1, Len(s) - 1), keep)
         IN IF keep[Len(s)] THEN Append(r, s[Len(s)]) ELSE r

\* SLBlock.prepare, after the children: the keyword partition.
PrepareKeywords(node) ==
    LET kw == node.keyword
        isc == [i \in 1..Len(kw) |-> is_constant(kw[i][2])]
        consts == Select(kw, isc)
        dyns == Select(kw, [i \in 1..Len(kw) |-> ~isc[i]])
        keyword_values == PairsToMap([i \in 1..Len(consts) |->
                              <<consts[i][1], EvalExpr(consts[i][2], EmptyMap, EmptyMap).v>>])
        keyword_keys == [i \in 1..Len(dyns) |-> dyns[i][1]]
        keyword_exprs == [i \in 1..Len(dyns) |-> dyns[i][2]]
    IN [node EXCEPT
          !.keyword_values = IF DOMAIN keyword_values # {}
                             THEN Some(keyword_values) ELSE Absent,
          !.keyword_exprs = IF keyword_keys # <<>>
                            THEN Some(CompileDict(keyword_keys, keyword_exprs))
                            ELSE Absent]

\* A prepare that compiles the dynamic expressions alone, with no
\* placeholder in the constant slots.
PreparePositionalCompact(node) ==
    LET pos == node.positional
        isc == [i \in 1..Len(pos) |-> is_constant(pos[i])]
        values == [i \in 1..Len(pos) |->
                      IF isc[i] THEN EvalExpr(pos[i], EmptyMap, EmptyMap).v
                      ELSE use_expression]
        exprs == Select(pos, [i \in 1..Len(pos) |-> ~isc[i]])
    IN [node EXCEPT
          !.positional_values = IF \E i \in 1..Len(pos) : isc[i]
                                THEN Some(values) ELSE Absent,
          !.positional_exprs = IF exprs # <<>>
                               THEN Some(CompileTuple(exprs)) ELSE Absent]

\* SLDisplayable.prepare, after SLBlock.prepare: the positional arguments.
PreparePositional(node) ==
    LET pos == node.positional
        values == [i \in 1..Len(pos) |->
                      IF is_constant(pos[i])
                      THEN EvalExpr(pos[i], EmptyMap, EmptyMap).v
                      ELSE use_expression]
        exprs == [i \in 1..Len(pos) |->
                      IF is_constant(pos[i]) THEN Const(<<"0">>) ELSE pos[i]]
        has_values == \E i \in 1..Len(pos) : is_constant(pos[i])
        has_exprs == \E i \in 1..Len(pos) : ~is_constant(pos[i])
    IN [node EXCEPT
          !.positional_values = IF has_values THEN Some(values) ELSE Absent,
          !.positional_exprs = IF has_exprs THEN Some(CompileTuple(exprs)) ELSE Absent]

\* SLFor.prepare, before SLBlock.prepare: the source expression, a list
\* display that is constant when all its items are.
PrepareFor(node) ==
    LET src == node.expression
        constant == \A i \in 1..Len(src) : is_constant(src[i])
    IN IF constant
       THEN [node EXCEPT
               !.expression_value =
                   Some([i \in 1..Len(src) |-> EvalExpr(src[i], EmptyMap, EmptyMap).v]),
               !.expression_expr = Absent]
       ELSE [node EXCEPT
               !.expression_value = Absent,
               !.expression_expr = Some(CompileTuple(src))]

\* SLIf.prepare: one step of the loop over self.entries.
PrepareEntry(entry) ==
    [cond |-> IF entry.cond # Absent THEN Some(py_compile(entry.cond[1])) ELSE Absent,
     block |-> entry.block]

\* A prepare that appends to the entries an earlier prepare left.
PreparedEntriesKept(node) == node.prepared_entries

\* SLIf.prepare: the list the loop appends to.
PreparedEntriesStart(node) == <<>>

RECURSIVE Prepare(_, _), PrepareAll(_, _), PrepareEntries(_, _, _)

\* for i in self.children: i.prepare()
PrepareAll(ids, ns) ==
    IF ids = <<>> THEN ns
    ELSE PrepareAll(Tail(ids), Prepare(Head(ids), ns))

\* for cond, block in self.entries: ...; block.prepare();
\* self.prepared_entries.append((cond, block))
PrepareEntries(id, i, ns) ==
    IF i > Len(ns[id].entries) THEN ns
    ELSE LET n1 == Prepare(ns[id].entries[i].block, ns)
         IN PrepareEntries(id, i + 1,
                [n1 EXCEPT ![id].prepared_entries =
                    Append(@, PrepareEntry(n1[id].entries[i]))])

\* node.prepare(), by the node's class.
Prepare(id, ns) ==
    LET kind == ns[id].kind
    IN CASE kind = "block" ->
              LET n1 == PrepareAll(ns[id].children, ns)
              IN [n1 EXCEPT ![id] = PrepareKeywords(@)]
         [] kind = "displayable" ->
              LET n1 == PrepareAll(ns[id].children, ns)
              IN [n1 EXCEPT ![id] = PreparePositional(PrepareKeywords(@))]
         [] kind = "for" ->
              LET n1 == [ns EXCEPT ![id] = PrepareFor(@)]
                  n2 == PrepareAll(n1[id].children, n1)
              IN [n2 EXCEPT ![id] = PrepareKeywords(@)]
         [] kind = "if" ->
              PrepareEntries(id, 1,
                  [ns EXCEPT ![id].prepared_entries = PreparedEntriesStart(ns[id])])
         [] kind = "default" ->
              [ns EXCEPT ![id].expr = Some(py_compile(ns[id].expression[1]))]
         [] OTHER -> ns

(***************************************************************************)
(* Execution.  An execution state st holds what execute and keywords read  *)
(* and write: the nodes, the scope mapping of this execution, the current  *)
(* SLContext (children, keywords, style_prefix; its scope is st.scope),    *)
(* the screen's widgets, the imagemap stack, the pending exception, the    *)
(* number of contexts created, and the history of what happened.           *)
(***************************************************************************)
NoErr == "none"

\* SLContext(): the root context.  id tells the contexts of an execution
\* apart: 0 is the root, k the k-th one SLDisplayable.execute created.
RootContext ==
    [id |-> 0, children |-> <<>>, keywords |-> EmptyMap, style_prefix |-> <<>>]

\* History: one record per event, with the scope and the context as they are
\* when it happens.
Log(st, ev, pass, id, idx, pos, kw) ==
    [st EXCEPT !.trace = Append(@,
        [ev |-> ev, pass |-> pass, node |-> id, idx |-> idx,
         scope |-> st.scope, ctx |-> st.ctx, nctx |-> st.nctx,
         stack |-> st.imagemap_stack, widgets |-> st.widgets,
         pos |-> pos, kw |-> kw])]

\* An exception is raised: it is pending from now on, and the history
\* records it.
Raise(st, e) == Log([st EXCEPT !.err = e], "raise", "", 0, 0, <<<<e>>>>, EmptyMap)

(***************************************************************************)
(* The keywords pass.                                                      *)
(*                                                                         *)
(* Each method is written as a chain of operators, the state one step      *)
(* leaves being the argument of the next; every step passes a pending      *)
(* exception on unchanged.                                                 *)
(***************************************************************************)
RECURSIVE Execute(_, _), ExecuteAll(_, _), Keywords(_, _), KeywordsAll(_, _),
          IfExecute(_, _, _), IfKeywords(_, _, _), ForLoop(_, _, _, _)

\* History: the normal return of a method.
Exit(st, pass, id) ==
    IF st.err # NoErr THEN st ELSE Log(st, "exit", pass, id, 0, <<>>, EmptyMap)

\* SLBlock.keywords: py_eval_bytecode(keyword_exprs).  No scope is passed,
\* so the names are looked up in the evaluator's default namespace, the
\* store.
DynamicKeywords(node, st) == EvalDict(node.keyword_exprs[1], store, store)

\* A style prefix that a style_group does not change.
StylePrefixKept(style_group, old) == old

\* SLBlock.keywords: the style prefix after style_group was popped.
StylePrefix(style_group, old) ==
    IF style_group = NotGiven THEN old
    ELSE IF style_group # None THEN style_group \o <<"_">>
    ELSE <<>>

\* SLBlock.keywords, up to the loop over the children.
BlockOwnKeywords(node, st) ==
    LET ctx == st.ctx
        k1 == IF node.keyword_values # Absent
              THEN Update(ctx.keywords, node.keyword_values[1])
              ELSE ctx.keywords
        dyn == IF node.keyword_exprs # Absent
               THEN DynamicKeywords(node, st)
               ELSE [ok |-> TRUE, v |-> EmptyMap]
        p == Pop(Update(k1, dyn.v), "style_group", NotGiven)
    IN IF ~dyn.ok
       THEN Raise([st EXCEPT !.ctx.keywords = k1], "NameError")
       ELSE [st EXCEPT !.ctx = [id |-> ctx.id, children |-> ctx.children,
                                keywords |-> p.m,
                                style_prefix |-> StylePrefix(p.v, ctx.style_prefix)]]

\* SLBlock.keywords
BlockKeywords(id, st) ==
    Exit(KeywordsAll(st.nodes[id].children,
             BlockOwnKeywords(st.nodes[id],
                 Log(st, "enter", "keywords", id, 0, <<>>, EmptyMap))),
         "keywords", id)

\* SLIf.execute and SLIf.keywords: the test of prepared entry i,
\* "cond is None or py_eval_bytecode(cond, locals=context.scope)".
EntryTest(id, i, pass, st) ==
    LET entry == st.nodes[id].prepared_entries[i]
        c == py_eval_bytecode(entry.cond[1], store, st.scope)
        s1 == Log(st, "cond", pass, id, i, <<>>, EmptyMap)
    IN IF entry.cond = Absent THEN [match |-> TRUE, st |-> st]
       ELSE IF ~c.ok THEN [match |-> FALSE, st |-> Raise(s1, "NameError")]
       ELSE [match |-> Truthy(c.v), st |-> s1]

\* A scan that goes on to the next entry after it acted on one.
AfterMatchFallThrough(node, i) == i + 1

\* SLIf.execute and SLIf.keywords: where the scan goes on after entry i was
\* acted on ("return": past the last entry).
AfterMatch(node, i) == Len(node.prepared_entries) + 1

\* SLIf.keywords: entry i, its test done.
IfKeywordsEntry(id, i, t) ==
    IF t.st.err # NoErr THEN t.st
    ELSE IF t.match
    THEN IfKeywords(id, AfterMatch(t.st.nodes[id], i),
             BlockKeywords(t.st.nodes[id].prepared_entries[i].block,
                 Log(t.st, "block", "keywords", id, i, <<>>, EmptyMap)))
    ELSE IfKeywords(id, i + 1, t.st)

\* SLIf.keywords, from entry i on.
IfKeywords(id, i, st) ==
    IF st.err # NoErr \/ i > Len(st.nodes[id].prepared_entries) THEN st
    ELSE IfKeywordsEntry(id, i, EntryTest(id, i, "keywords", st))

\* node.keywords(context), by the node's class: SLBlock and SLDisplayable
\* (which inherits SLBlock.keywords), SLIf, and the no-ops of SLFor and SLNode.
Keywords(id, st) ==
    IF st.err # NoErr THEN st
    ELSE CASE st.nodes[id].kind \in {"block", "displayable"} -> BlockKeywords(id, st)
           [] st.nodes[id].kind = "if" ->
                Exit(IfKeywords(id, 1,
                         Log(st, "enter", "keywords", id, 0, <<>>, EmptyMap)),
                     "keywords", id)
           [] OTHER -> st

\* for i in self.children: i.keywords(context)
KeywordsAll(ids, st) ==
    IF ids = <<>> \/ st.err # NoErr THEN st
    ELSE KeywordsAll(Tail(ids), Keywords(Head(ids), st))

(***************************************************************************)
(* SLDisplayable.execute                                                   *)
(***************************************************************************)
\* "Evaluate the positional arguments": the positional list, and whether it
\* is the node's own positional_values list ("alias"), the tuple the
\* evaluator returned ("tuple") or a new list ("list").
Positional(node, st) ==
    LET positional_values == node.positional_values
        positional_exprs == node.positional_exprs
    IN IF positional_values # Absent /\ positional_values[1] # <<>>
          /\ positional_exprs # Absent
       THEN LET values == EvalTuple(positional_exprs[1], st.scope, st.scope)
                pv == positional_values[1]
                n == IF Len(pv) < Len(values.v) THEN Len(pv) ELSE Len(values.v)
            IN [ok |-> values.ok, is |-> "list",
                v |-> [i \in 1..n |->
                          IF pv[i] = use_expression THEN values.v[i] ELSE pv[i]]]
       ELSE IF positional_values # Absent /\ positional_values[1] # <<>>
       THEN [ok |-> TRUE, is |-> "alias", v |-> positional_values[1]]
       ELSE IF positional_exprs # Absent
       THEN LET values == EvalTuple(positional_exprs[1], store, st.scope)
            IN [ok |-> values.ok, is |-> "tuple", v |-> values.v]
       ELSE [ok |-> TRUE, is |-> "list", v |-> <<>>]

\* "Pass the context": positional.insert(0, ctx), on the list Positional
\* gave.  A tuple has no insert.
PassContext(node, p, k) ==
    IF ~node.pass_context THEN p
    ELSE IF p.is = "tuple" THEN [p EXCEPT !.ok = FALSE]
    ELSE [p EXCEPT !.v = <<CtxRef(k)>> \o @]

\* What positional.insert leaves in the node: the insert is made in
\* self.positional_values when positional is that very list.
InsertedInNode(node, p, q) ==
    IF node.pass_context /\ p.is = "alias"
    THEN [node EXCEPT !.positional_values = Some(q.v)]
    ELSE node

\* "If we don't know the style, figure it out."  renpy.style.get_style
\* returns the style of a name.
get_style(name) == <<"#style">> \o name

\* renpy.style.get_style raises for a style that does not exist.
style_exists(name) == name[Len(name)] # "nostyle"

\* Whether "figure it out" raises.
StyleFails(node, keywords, style_prefix) ==
    /\ "style" \notin DOMAIN keywords
    /\ node.style # <<>>
    /\ ~style_exists(style_prefix \o node.style)

DefaultStyle(node, keywords, style_prefix) ==
    IF "style" \notin DOMAIN keywords /\ node.style # <<>>
    THEN Put(keywords, "style", get_style(style_prefix \o node.style))
    ELSE keywords

\* if self.scope: keywords["scope"] = ctx.scope
ScopeKeyword(node, keywords) ==
    IF node.scope THEN Put(keywords, "scope", ScopeRef) ELSE keywords

\* A merge in which the node's own keywords win over the widget properties.
ReservedOwnWins(keywords) ==
    LET a == Pop(keywords, "id", None)
        b == Pop(a.m, "at", None)
        over == IF a.v \in DOMAIN widget_properties
                THEN Update(widget_properties[a.v], b.m)
                ELSE b.m
    IN [widget_id |-> a.v, transform |-> b.v, keywords |-> over]

\* "Get the widget id and transform, if any." and the merge of the screen's
\* widget_properties: the id, the transform and the final keywords.
Reserved(keywords) ==
    LET a == Pop(keywords, "id", None)
        b == Pop(a.m, "at", None)
        over == IF a.v \in DOMAIN widget_properties
                THEN Update(b.m, widget_properties[a.v])
                ELSE b.m
    IN [widget_id |-> a.v, transform |-> b.v, keywords |-> over]

\* The displayable a construction function returns; add() appends to kids.
Displayable(fn, pos, kw) == [fn |-> fn, pos |-> pos, kw |-> kw, kids |-> <<>>]

\* The result of transform(d).
Transformed(t, d) == [fn |-> "#transform", pos |-> <<t>>, kw |-> EmptyMap, kids |-> <<d>>]

\* The construction function and the transform that raise when called.
construction_fails(fn) == fn = "bad"
transform_fails(t) == t = <<"badtf">>

\* An exit by exception that appends an element to the caller's children.
UnwoundAppended(caller, st) ==
    [st EXCEPT !.ctx = [caller EXCEPT !.children =
                           Append(@, [fn |-> "#partial", pos |-> <<>>,
                                      kw |-> EmptyMap, kids |-> st.ctx.children])]]

\* An exception leaves SLDisplayable.execute: the caller's context is as
\* it was when the method was entered.
Unwound(caller, st) == [st EXCEPT !.ctx = caller]

\* A registry that is never written.
RegisteredNowhere(widget_id, d, ws) == ws

\* if widget_id is not None: screen.widgets[widget_id] = d
Registered(widget_id, d, ws) ==
    IF widget_id # None THEN Put(ws, widget_id, d) ELSE ws

\* A transform that is not applied.
ApplyNothing(transform, d) == d

\* if transform is not None: d = transform(d)
Apply(transform, d) ==
    IF transform # None THEN Transformed(transform, d) ELSE d

\* A pop that takes the oldest entry.
ImagemapPopFirst(stack) == Tail(stack)

\* renpy.ui.imagemap_stack.pop()
ImagemapPop(stack) == SubSeq(stack, 1, Len(stack) - 1)

\* SLDisplayable.execute, the children executed: d.add, the widget
\* registry, the transform, the caller's children, the imagemap stack.
DisplayableFinish(id, caller, r, d0, st) ==
    LET node == st.nodes[id]
        d1 == [d0 EXCEPT !.kids = st.ctx.children]
        reg == [st EXCEPT !.widgets = Registered(r.widget_id, d1, @)]
        s1 == [reg EXCEPT
                 !.ctx = [caller EXCEPT !.children = Append(@, Apply(r.transform, d1))]]
    IN IF st.err # NoErr THEN Unwound(caller, st)
       ELSE IF r.transform # None /\ transform_fails(r.transform)
       THEN Raise(Unwound(caller, reg), "TransformError")
       ELSE IF ~node.imagemap THEN s1
       ELSE IF s1.imagemap_stack = <<>> THEN Raise(s1, "IndexError")
       ELSE [s1 EXCEPT !.imagemap_stack = ImagemapPop(@)]

\* d = self.displayable(*positional, **keywords): the state after the call.
\* The construction function of an imagemap pushes on the imagemap stack.
Constructed(id, positional, r, st) ==
    IF construction_fails(st.nodes[id].displayable)
    THEN Raise(Log([st EXCEPT !.ctx.keywords = r.keywords],
                   "call", "execute", id, 0, positional, r.keywords),
               "ConstructError")
    ELSE [Log([st EXCEPT !.ctx.keywords = r.keywords],
              "call", "execute", id, 0, positional, r.keywords)
            EXCEPT !.imagemap_stack =
                       IF st.nodes[id].imagemap THEN Append(@, st.nctx) ELSE @]

\* SLDisplayable.execute, from the construction on.
DisplayableBuild(id, caller, positional, r, st) ==
    DisplayableFinish(id, caller, r,
        Displayable(st.nodes[id].displayable, positional, r.keywords),
        ExecuteAll(st.nodes[id].children, Constructed(id, positional, r, st)))

\* SLDisplayable.execute, SLBlock.keywords(self, ctx) done: from "Pass the
\* context" to the merge of the widget properties.
DisplayableKeywords(id, caller, p, st) ==
    IF st.err # NoErr THEN Unwound(caller, st)
    ELSE IF ~PassContext(st.nodes[id], p, st.nctx).ok
    THEN Raise(Unwound(caller, st), "AttributeError")
    ELSE IF StyleFails(st.nodes[id], st.ctx.keywords, st.ctx.style_prefix)
    THEN Raise(Unwound(caller,
                   [st EXCEPT !.nodes[id] =
                       InsertedInNode(@, p, PassContext(@, p, st.nctx))]),
               "StyleError")
    ELSE DisplayableBuild(id, caller,
             PassContext(st.nodes[id], p, st.nctx).v,
             Reserved(ScopeKeyword(st.nodes[id],
                 DefaultStyle(st.nodes[id], st.ctx.keywords, st.ctx.style_prefix))),
             [st EXCEPT !.nodes[id] =
                 InsertedInNode(@, p, PassContext(@, p, st.nctx))])

\* SLDisplayable.execute, the positional arguments evaluated: "Create the
\* context" and SLBlock.keywords(self, ctx).
DisplayableContext(id, caller, p, st) ==
    IF ~p.ok THEN Raise(st, "NameError")
    ELSE DisplayableKeywords(id, caller, p,
             BlockKeywords(id,
                 [st EXCEPT !.nctx = @ + 1,
                            !.ctx = [id |-> st.nctx + 1, children |-> <<>>,
                                     keywords |-> EmptyMap,
                                     style_prefix |-> caller.style_prefix]]))

\* An execute whose child context has a scope of its own: the caller's
\* scope is afterwards what it was.
DisplayableExecuteOwnScope(id, st) ==
    [DisplayableContext(id, st.ctx, Positional(st.nodes[id], st), st)
        EXCEPT !.scope = st.scope]

\* SLDisplayable.execute
DisplayableExecute(id, st) ==
    DisplayableContext(id, st.ctx, Positional(st.nodes[id], st), st)

(***************************************************************************)
(* The control nodes.                                                      *)
(***************************************************************************)
\* SLIf.execute: entry i, its test done.
IfExecuteEntry(id, i, t) ==
    IF t.st.err # NoErr THEN t.st
    ELSE IF t.match
    THEN IfExecute(id, AfterMatch(t.st.nodes[id], i),
             Execute(t.st.nodes[id].prepared_entries[i].block,
                 Log(t.st, "block", "execute", id, i, <<>>, EmptyMap)))
    ELSE IfExecute(id, i + 1, t.st)

\* SLIf.execute, from entry i on.
IfExecute(id, i, st) ==
    IF st.err # NoErr \/ i > Len(st.nodes[id].prepared_entries) THEN st
    ELSE IfExecuteEntry(id, i, EntryTest(id, i, "execute", st))

\* SLFor.execute: the value iterated over.
ForValue(node, st) ==
    IF node.expression_expr # Absent
    THEN EvalTuple(node.expression_expr[1], store, st.scope)
    ELSE [ok |-> TRUE, v |-> node.expression_value[1]]

\* A loop that does not bind its variable.
ForBindNothing(node, st, i) == st

\* SLFor.execute: context.scope[variable] = i
ForBind(node, st, i) == [st EXCEPT !.scope = Put(@, node.variable, i)]

\* SLFor.execute: the loop, from element i on.
ForLoop(id, value, i, st) ==
    IF st.err # NoErr \/ i > Len(value) THEN st
    ELSE ForLoop(id, value, i + 1,
             ExecuteAll(st.nodes[id].children,
                 Log(ForBind(st.nodes[id], st, value[i]),
                     "iter", "execute", id, i, <<value[i]>>, EmptyMap)))

\* SLFor.execute, the value at hand.
ForStart(id, value, st) ==
    IF ~value.ok THEN Raise(st, "NameError") ELSE ForLoop(id, value.v, 1, st)

\* SLFor.execute
ForExecute(id, st) == ForStart(id, ForValue(st.nodes[id], st), st)

\* SLPython.execute: the code is one assignment, variable = expression, run
\* with the scope as its locals.
PythonExecute(id, st) ==
    LET node == st.nodes[id]
        r == EvalExpr(node.expression[1], store, st.scope)
    IN IF ~r.ok THEN Raise(st, "NameError")
       ELSE [st EXCEPT !.scope = Put(@, node.variable, r.v)]

\* A default that binds the variable whether it is bound or not.
DefaultExecuteAlways(id, st) ==
    LET node == st.nodes[id]
        r == py_eval_bytecode(node.expr[1], store, st.scope)
    IN IF ~r.ok THEN Raise(st, "NameError")
       ELSE [st EXCEPT !.scope = Put(@, node.variable, r.v)]

\* SLDefault.execute
DefaultExecute(id, st) ==
    LET node == st.nodes[id]
        r == py_eval_bytecode(node.expr[1], store, st.scope)
    IN IF node.variable \in DOMAIN st.scope THEN st
       ELSE IF ~r.ok THEN Raise(st, "NameError")
       ELSE [st EXCEPT !.scope = Put(@, node.variable, r.v)]

\* node.execute(context), by the node's class.
Dispatch(id, st) ==
    CASE st.nodes[id].kind = "block" -> ExecuteAll(st.nodes[id].children, st)
      [] st.nodes[id].kind = "displayable" -> DisplayableExecute(id, st)
      [] st.nodes[id].kind = "if" -> IfExecute(id, 1, st)
      [] st.nodes[id].kind = "for" -> ForExecute(id, st)
      [] st.nodes[id].kind = "python" -> PythonExecute(id, st)
      [] st.nodes[id].kind = "default" -> DefaultExecute(id, st)
      [] OTHER -> st

Execute(id, st) ==
    IF st.err # NoErr THEN st
    ELSE Exit(Dispatch(id, Log(st, "enter", "execute", id, 0, <<>>, EmptyMap)),
              "execute", id)

\* SLBlock.execute: for i in self.children: i.execute(context)
ExecuteAll(ids, st) ==
    IF ids = <<>> \/ st.err # NoErr THEN st
    ELSE ExecuteAll(Tail(ids), Execute(Head(ids), st))

(***************************************************************************)
(* The screens, the scopes and the screen properties the model runs.       *)
(***************************************************************************)
Str(s) == <<s>>
Map1(k, v) == [x \in {k} |-> v]

\* The positional expressions of the "label" displayable.
LabelPositional(posv) ==
    CASE posv = 1 -> <<>>
      [] posv = 2 -> <<Const(Str("a")), Const(Str("b"))>>
      [] posv = 3 -> <<Name("p"), Name("q")>>
      [] posv = 4 -> <<Const(Str("a")), Name("p"), Const(Str("b"))>>
      [] OTHER -> <<Name("q"), Const(Str("a")), Name("p")>>

\* The keywords of the "window" displayable.
WindowKeyword(kwv) ==
    CASE kwv = 1 -> << <<"id", Const(Str("w"))>>, <<"color", Const(Str("red"))>> >>
      [] kwv = 2 -> << <<"color", Const(Str("red"))>> >>
      [] kwv = 3 -> << <<"id", Const(Str("v"))>>, <<"color", Const(Str("red"))>>,
                       <<"at", Const(Str("tf"))>> >>
      [] kwv = 4 -> << <<"color", Const(Str("red"))>>, <<"color", Name("g")>>,
                       <<"style_group", Const(Str("grp"))>>, <<"id", Const(Str("w"))>> >>
      [] kwv = 5 -> << <<"style_group", Const(None)>>, <<"color", Name("g")>>,
                       <<"color", Const(Str("red"))>> >>
      [] OTHER -> << <<"style_group", Name("g")>>,
                     <<"style_group", Const(Str("grp"))>> >>

\* The keywords of the displayables under the if statement.
ChildKeyword(ckv) ==
    CASE ckv = 1 -> <<>>
      [] ckv = 2 -> << <<"style_group", Const(Str("g2"))>>, <<"id", Const(Str("c"))>>,
                       <<"at", Const(Str("t9"))>>, <<"xpos", Const(Str("7"))>> >>
      [] OTHER -> << <<"id", Const(Str("k"))>>, <<"at", Const(Str("badtf"))>> >>

\* The entries of the if statement.
IfEntries(ifv) ==
    CASE ifv = 1 -> <<[cond |-> Some(Name("p")), block |-> 7],
                      [cond |-> Some(Name("q")), block |-> 8],
                      [cond |-> Absent, block |-> 9]>>
      [] ifv = 2 -> <<[cond |-> Some(Name("p")), block |-> 7],
                      [cond |-> Some(Const(Str("1"))), block |-> 8],
                      [cond |-> Absent, block |-> 9]>>
      [] OTHER -> <<[cond |-> Some(Name("p")), block |-> 7],
                    [cond |-> Some(Name("q")), block |-> 8]>>

\* The source of the for statement.
ForSource(src) ==
    CASE src = 1 -> <<>>
      [] src = 2 -> <<Const(Str("1")), Const(Str("2")), Const(Str("3"))>>
      [] OTHER -> <<Name("p"), Name("q")>>

\* The node tree of a screen.
Screen(c) ==
    [id \in 1..15 |->
      CASE id = 1 ->
             [Blank("block") EXCEPT
                !.children = CASE c.shape = "A" -> <<12>>
                               [] c.shape = "B" -> <<4>>
                               [] c.shape = "C" -> <<2, 10, 12>>
                               [] c.shape = "E" -> <<12, 4, 3>>
                               [] OTHER -> <<2, 4, 12>>]
        [] id = 2 ->
             [Blank("default") EXCEPT
                !.variable = "y",
                !.expression = IF c.dv = 1 THEN <<Const(Str("5"))>> ELSE <<Name("p")>>]
        [] id = 4 ->
             [Blank("displayable") EXCEPT
                !.displayable = "window", !.style = Str("window"),
                !.imagemap = (c.kwv = 3),
                !.positional = <<Const(Str("t"))>>,
                !.keyword = WindowKeyword(c.kwv),
                !.children = IF c.shape = "B" THEN <<5, 6>> ELSE <<5, 6, 10>>]
        [] id = 5 ->
             [Blank("python") EXCEPT
                !.variable = IF c.pyv = 1 THEN "z" ELSE "p",
                !.expression = <<Const(Str("1"))>>]
        [] id = 6 -> [Blank("if") EXCEPT !.entries = IfEntries(c.ifv)]
        [] id \in {7, 8, 9} ->
             [Blank("block") EXCEPT
                !.keyword = << <<"color", Const(Str(CASE id = 7 -> "c1"
                                                      [] id = 8 -> "c2"
                                                      [] OTHER -> "c3"))>> >>,
                !.children = <<id + 6>>]
        [] id = 10 ->
             [Blank("for") EXCEPT
                !.variable = "x", !.expression = ForSource(c.src),
                !.children = <<11, 3>>]
        [] id = 11 ->
             [Blank("displayable") EXCEPT
                !.displayable = "text", !.style = Str("text"),
                !.positional = <<Name("x")>>,
                !.keyword = IF c.dk THEN << <<"size", Name("x")>> >> ELSE <<>>]
        [] id = 12 ->
             [Blank("displayable") EXCEPT
                !.displayable = "label", !.style = Str("label"),
                !.pass_context = c.pc, !.scope = c.sf,
                !.positional = LabelPositional(c.posv),
                !.keyword = << <<"color", Const(Str("red"))>> >>]
        [] id \in {13, 14, 15} ->
             [Blank("displayable") EXCEPT
                !.displayable = CASE c.cfn = 2 -> "bad"
                                  [] id = 13 -> "b1"
                                  [] id = 14 -> "b2"
                                  [] OTHER -> "b3",
                !.style = IF c.cfn = 3 THEN Str("nostyle") ELSE <<>>,
                !.imagemap = c.cim,
                !.keyword = ChildKeyword(c.ckv)]
        [] OTHER -> Blank("pass")]

\* The choices a screen is built from, and the screens of the model.
Base ==
    [shape |-> "A", posv |-> 2, pc |-> FALSE, sf |-> FALSE, kwv |-> 1,
     ifv |-> 1, pyv |-> 1, src |-> 2, dk |-> FALSE, dv |-> 1, wp |-> 1, st |-> 1,
     ckv |-> 1, cfn |-> 1, cim |-> FALSE]

Screens ==
    {[Base EXCEPT !.posv = a, !.pc = b, !.sf = d] :
        a \in 1..5, b \in BOOLEAN, d \in BOOLEAN}
    \cup
    {[Base EXCEPT !.shape = "B", !.kwv = a, !.wp = b] : a \in 1..4, b \in 1..3}
    \cup
    {[Base EXCEPT !.shape = "B", !.ifv = a, !.pyv = b] : a \in 1..3, b \in 1..2}
    \cup
    {[Base EXCEPT !.shape = "C", !.dv = a, !.src = b, !.dk = d, !.st = e, !.posv = 4] :
        a \in 1..2, b \in 1..3, d \in BOOLEAN, e \in 1..2}
    \cup
    {[Base EXCEPT !.shape = "D", !.pc = a, !.pyv = b, !.src = d, !.posv = 4] :
        a \in BOOLEAN, b \in 1..2, d \in 2..3}
    \cup
    {[Base EXCEPT !.shape = "E", !.kwv = a, !.ckv = b, !.cim = d] :
        a \in {2, 3, 5, 6}, b \in 1..3, d \in BOOLEAN}
    \cup
    {[Base EXCEPT !.shape = "E", !.kwv = a, !.cfn = b] : a \in {1, 3}, b \in 2..3}
    \cup
    {[Base EXCEPT !.shape = "B", !.kwv = a, !.ifv = 3] : a \in 4..5}
    \cup
    {[Base EXCEPT !.shape = "E", !.kwv = 3, !.ifv = 3, !.cfn = a, !.cim = b] :
        a \in 1..2, b \in BOOLEAN}

\* The scopes a top-level execute starts with.
Scopes ==
    {EmptyMap,
     PairsToMap(<< <<"p", Str("1")>>, <<"q", Str("0")>> >>),
     PairsToMap(<< <<"p", Str("0")>>, <<"q", Str("1")>>, <<"y", Str("10")>> >>),
     PairsToMap(<< <<"p", Str("0")>>, <<"q", Str("0")>>, <<"x", Str("9")>> >>),
     PairsToMap(<< <<"y", Str("10")>>, <<"x", Str("9")>> >>)}

Stores(v) ==
    IF v = 1 THEN Map1("g", Str("green"))
    ELSE PairsToMap(<< <<"g", Str("green")>>, <<"x", Str("gx")>> >>)

WidgetProperties(v) ==
    CASE v = 1 -> EmptyMap
      [] v = 2 -> Map1(Str("w"), PairsToMap(<< <<"color", Str("blue")>>,
                                               <<"style", Str("s")>> >>))
      [] OTHER -> Map1(Str("w"), PairsToMap(<< <<"color", Str("blue")>>,
                                               <<"at", Str("t2")>>,
                                               <<"id", Str("w2")>> >>))

(***************************************************************************)
(* The state machine: a screen is built, prepared (once, and again after   *)
(* init code ran), and executed with a new root context each time.         *)
(***************************************************************************)
Root == 1

\* The classes whose construction runs SLNode.__init__: SLIf calls it, SLPass
\* inherits it.  SLBlock and its subclasses SLDisplayable and SLFor derive
\* from object, SLPython calls the __init__ of SLNode's base class, and
\* SLDefault.__init__ calls no other.
RunsNodeInit(kind) == kind \in {"if", "pass"}

\* SLNode.__init__: serial += 1
SerialAfter(kind, n) == IF RunsNodeInit(kind) THEN n + 1 ELSE n

\* The serial number after the nodes 1..id were constructed, in that order.
RECURSIVE SerialUpTo(_, _)
SerialUpTo(ns, id) ==
    IF id = 0 THEN 0 ELSE SerialAfter(ns[id].kind, SerialUpTo(ns, id - 1))

\* The tree as its construction leaves it: self.serial = serial, for the
\* classes that run SLNode.__init__.
Construct(ns) ==
    [id \in DOMAIN ns |->
        [ns[id] EXCEPT !.serial = IF RunsNodeInit(ns[id].kind)
                                  THEN Some(SerialUpTo(ns, id)) ELSE Absent]]

Init ==
    /\ \E c \in Screens :
          /\ nodes = Construct(Screen(c))
          /\ serial = SerialUpTo(Screen(c), 15)
          /\ store = Stores(c.st)
          /\ widget_properties = WidgetProperties(c.wp)
    /\ widgets = EmptyMap
    /\ imagemap_stack = <<>>
    /\ scope = EmptyMap
    /\ context = RootContext
    /\ err = NoErr
    /\ trace = <<>>
    /\ nprep = 0
    /\ nexec = 0
    /\ last = "init"
    /\ scope0 = EmptyMap
    /\ nodes0 = nodes

\* The top-level prepare of the screen.
DoPrepare ==
    /\ nprep < MaxPrep
    /\ nodes' = Prepare(Root, nodes)
    /\ nodes0' = nodes'
    /\ nprep' = nprep + 1
    /\ last' = "prepare"
    /\ UNCHANGED <<serial, store, widget_properties, widgets, imagemap_stack,
                   scope, context, err, trace, nexec, scope0>>

\* The execution state a top-level execute starts in, and what it returns.
Start(ns, sc, ws, stack) ==
    [nodes |-> ns, scope |-> sc, ctx |-> RootContext, widgets |-> ws,
     imagemap_stack |-> stack, err |-> NoErr, nctx |-> 0, trace |-> <<>>]

Run(ns, sc, ws, stack) == Execute(Root, Start(ns, sc, ws, stack))

\* What a top-level execute leaves behind.
Returned(r) ==
    /\ nodes' = r.nodes
    /\ scope' = r.scope
    /\ context' = r.ctx
    /\ widgets' = r.widgets
    /\ imagemap_stack' = r.imagemap_stack
    /\ err' = r.err
    /\ trace' = r.trace

\* A top-level execute of the prepared screen, in a scope given by the
\* caller: a new one, or the one the last execute left.
DoExecute(sc) ==
    /\ nprep > 0
    /\ nexec < MaxExec
    /\ Returned(Run(nodes, sc, widgets, imagemap_stack))
    /\ scope0' = sc
    /\ nexec' = nexec + 1
    /\ last' = "execute"
    /\ UNCHANGED <<serial, store, widget_properties, nprep, nodes0>>

Next ==
    \/ DoPrepare
    \/ \E sc \in Scopes \cup {scope} : DoExecute(sc)

Spec == Init /\ [][Next]_vars

(***************************************************************************)
(* Properties.  They are stated on the history of the last top-level       *)
(* execute: trace[i] is the i-th event, with the scope and the context at  *)
(* that moment.                                                            *)
(***************************************************************************)
Events == 1..Len(trace)

Is(i, ev, pass) == trace[i].ev = ev /\ trace[i].pass = pass

\* The normal return that matches the entry at event i: the first later
\* exit of the same method of the same node; 0 when it did not return.
ExitOf(i) ==
    LET later == {j \in Events : j > i /\ trace[j].ev = "exit"
                                /\ trace[j].pass = trace[i].pass
                                /\ trace[j].node = trace[i].node}
    IN IF later = {} THEN 0 ELSE CHOOSE j \in later : \A k \in later : j <= k

\* The value a declared expression has in scope sc.
Bound(e, sc) == e.k = "const" \/ e.v[1] \in DOMAIN sc
ValueIn(e, sc) == IF e.k = "const" THEN e.v ELSE sc[e.v[1]]

\* An if entry whose condition is absent or true in scope sc, and the first
\* such entry of a list (0: none).
Holds(entry, sc) ==
    \/ entry.cond = Absent
    \/ /\ Bound(entry.cond[1].co[1], sc)
       /\ Truthy(ValueIn(entry.cond[1].co[1], sc))

FirstMatch(es, sc) ==
    IF \E e \in 1..Len(es) : Holds(es[e], sc)
    THEN CHOOSE e \in 1..Len(es) :
            Holds(es[e], sc) /\ \A f \in 1..(e - 1) : ~Holds(es[f], sc)
    ELSE 0

\* The element a construction function returned, given what was appended
\* to context.children: that element, or the transform's result on it.
Built(d) == IF d.fn = "#transform" THEN d.kids[1] ELSE d

\* One run of SLIf.execute or SLIf.keywords, entered at event i and returned
\* at event j.
IfRunOK(i, j) ==
    LET id == trace[i].node
        es == nodes[id].prepared_entries
        m == FirstMatch(es, trace[i].scope)
        upto == IF m = 0 THEN Len(es) ELSE m
        inside == {k \in Events : i < k /\ k < j}
        conds == {k \in inside : trace[k].ev = "cond" /\ trace[k].node = id}
        blocks == {k \in inside : trace[k].ev = "block" /\ trace[k].node = id}
        entered == {k \in inside : /\ trace[k].ev = "enter"
                                   /\ \E e \in 1..Len(es) : trace[k].node = es[e].block}
    IN /\ {trace[k].idx : k \in blocks} = (IF m = 0 THEN {} ELSE {m})
       /\ Cardinality(blocks) <= 1
       /\ {trace[k].idx : k \in conds} = {e \in 1..upto : es[e].cond # Absent}
       /\ Cardinality(conds) = Cardinality({e \in 1..upto : es[e].cond # Absent})
       /\ Cardinality(entered) = (IF m = 0 THEN 0 ELSE 1)
       /\ \A k \in entered : /\ trace[k].node = es[m].block
                             /\ trace[k].pass = trace[i].pass
       /\ m = 0 => /\ trace[j].ctx = trace[i].ctx
                   /\ trace[j].scope = trace[i].scope
       /\ (m # 0 /\ trace[i].pass = "execute") =>
             /\ Len(trace[j].ctx.children) = Len(trace[i].ctx.children) + 1
             /\ SubSeq(trace[j].ctx.children, 1, Len(trace[i].ctx.children))
                    = trace[i].ctx.children
             /\ Built(trace[j].ctx.children[Len(trace[j].ctx.children)]).fn
                    = nodes[nodes[es[m].block].children[1]].displayable

\* C1: SLIf.execute and SLIf.keywords act on exactly the first entry whose
\* condition is absent or true in context.scope: its block and no other is
\* entered, no condition after it is evaluated, and with no such entry
\* nothing changes; in the execute pass exactly one block's displayable is
\* added to context.children.
C1_IfFirstMatch ==
    \A i \in Events :
        (trace[i].ev = "enter" /\ nodes[trace[i].node].kind = "if" /\ ExitOf(i) # 0)
            => IfRunOK(i, ExitOf(i))

\* Both passes ran over the three-entry if statement and took its second
\* entry.
C1_Witness ==
    /\ err = NoErr
    /\ Len(nodes[6].prepared_entries) = 3
    /\ \E i \in Events : Is(i, "block", "execute") /\ trace[i].node = 6 /\ trace[i].idx = 2
    /\ \E i \in Events : Is(i, "block", "keywords") /\ trace[i].node = 6 /\ trace[i].idx = 2

\* C2: without pass_context, the construction function gets as many
\* positional arguments as were declared, the k-th being the value of the
\* k-th declared expression (in context.scope when it is dynamic).
C2_PositionalOrder ==
    \A i \in Events :
        (trace[i].ev = "call" /\ ~nodes[trace[i].node].pass_context) =>
            LET decl == nodes[trace[i].node].positional
            IN /\ Len(trace[i].pos) = Len(decl)
               /\ \A k \in 1..Len(decl) :
                     /\ Bound(decl[k], trace[i].scope)
                     /\ trace[i].pos[k] = ValueIn(decl[k], trace[i].scope)

\* A displayable declared (dynamic, constant, dynamic) was constructed.
C2_Witness ==
    \E i \in Events :
        /\ trace[i].ev = "call" /\ trace[i].node = 12
        /\ ~nodes[12].pass_context
        /\ nodes[12].positional = LabelPositional(5)
        /\ trace[i].pos = <<Str("1"), Str("a"), Str("0")>>

\* The construction calls of node n in a history, in order.
CallsOf(t, n) == SelectSeq(t, LAMBDA e : e.ev = "call" /\ e.node = n)

\* A displayable with no children whose positional and keyword expressions
\* are all constant.
AllConstant(n) ==
    /\ nodes[n].kind = "displayable"
    /\ nodes[n].children = <<>>
    /\ \A k \in 1..Len(nodes[n].positional) : is_constant(nodes[n].positional[k])
    /\ \A k \in 1..Len(nodes[n].keyword) : is_constant(nodes[n].keyword[k][2])

\* C3: a displayable whose expressions are all constant is constructed with
\* the same positional and keyword arguments by every execute after one
\* prepare: whatever scope the next execute is given, its calls have the
\* arguments of the calls of the last one.
C3_ConstantArguments ==
    (nprep > 0 /\ last = "execute") =>
        \A n \in DOMAIN nodes : AllConstant(n) =>
            \A sc \in Scopes :
                \A a \in DOMAIN CallsOf(trace, n) :
                    \A b \in DOMAIN CallsOf(Run(nodes, sc, widgets, imagemap_stack).trace, n) :
                        /\ CallsOf(Run(nodes, sc, widgets, imagemap_stack).trace, n)[b].pos
                              = CallsOf(trace, n)[a].pos
                        /\ CallsOf(Run(nodes, sc, widgets, imagemap_stack).trace, n)[b].kw
                              = CallsOf(trace, n)[a].kw

\* One run of SLFor.execute, entered at event i and returned at event j.
ForRunOK(i, j) ==
    LET id == trace[i].node
        x == nodes[id].variable
        src == nodes[id].expression
        s == [k \in 1..Len(src) |-> ValueIn(src[k], trace[i].scope)]
        base == Len(trace[i].ctx.children)
        iters == {e \in Events : i < e /\ e < j /\ trace[e].ev = "iter"
                                 /\ trace[e].node = id}
    IN /\ \A k \in 1..Len(src) : Bound(src[k], trace[i].scope)
       /\ Cardinality(iters) = Len(s)
       /\ \A k \in 1..Len(s) :
             \E e \in iters :
                /\ trace[e].idx = k
                /\ trace[e].scope[x] = s[k]
                /\ Len(trace[e].ctx.children) = base + k - 1
                \* the body starts right after the binding, with x the element
                /\ trace[e + 1].ev = "enter"
                /\ trace[e + 1].node = nodes[id].children[1]
                /\ trace[e + 1].scope[x] = s[k]
       /\ \A e, f \in iters : e < f => trace[e].idx < trace[f].idx
       \* context.children: what it was, then one element per iteration
       /\ Len(trace[j].ctx.children) = base + Len(s)
       /\ SubSeq(trace[j].ctx.children, 1, base) = trace[i].ctx.children
       /\ \A k \in 1..Len(s) :
             /\ trace[j].ctx.children[base + k].fn
                   = nodes[nodes[id].children[1]].displayable
             /\ trace[j].ctx.children[base + k].pos = <<s[k]>>
       /\ trace[j].ctx.keywords = trace[i].ctx.keywords
       /\ trace[j].ctx.style_prefix = trace[i].ctx.style_prefix
       /\ trace[j].scope = IF s = <<>> THEN trace[i].scope
                           ELSE Put(trace[i].scope, x, s[Len(s)])

\* C4: SLFor.execute runs its body once per element of the source, in
\* order, with the variable bound to the element; afterwards
\* context.children is what it was followed by what the iterations produced
\* in order, and the variable is bound to the last element; an empty source
\* changes nothing.
C4_ForLoop ==
    \A i \in Events :
        (Is(i, "enter", "execute") /\ nodes[trace[i].node].kind = "for"
            /\ ExitOf(i) # 0) => ForRunOK(i, ExitOf(i))

\* A loop over a dynamic source of two elements returned, in a context that
\* already had a child, and a loop over three constants returned.
C4_Witness ==
    \/ \E i \in Events :
          /\ Is(i, "exit", "execute") /\ trace[i].node = 10
          /\ nodes[10].expression_expr # Absent
          /\ Len(trace[i].ctx.children) = 3
          /\ trace[i].scope["x"] = Str("1")
    \/ \E i \in Events :
          /\ Is(i, "exit", "execute") /\ trace[i].node = 10
          /\ nodes[10].expression_value # Absent
          /\ Len(trace[i].ctx.children) = 3
          /\ trace[i].scope["x"] = Str("3")

\* The execution state at event i of the history.
StateAt(i) ==
    [nodes |-> nodes, scope |-> trace[i].scope, ctx |-> trace[i].ctx,
     widgets |-> trace[i].widgets, imagemap_stack |-> trace[i].stack,
     err |-> NoErr, nctx |-> trace[i].nctx, trace |-> <<>>]

\* C5: SLDefault.execute leaves a scope that binds the variable as it is,
\* without evaluating the expression, and otherwise binds the variable to
\* the value of the expression and changes no other binding; the context is
\* unchanged, and a second execute changes nothing.
C5_Default ==
    \A i \in Events :
        (Is(i, "enter", "execute") /\ nodes[trace[i].node].kind = "default") =>
            LET node == nodes[trace[i].node]
                e == node.expression[1]
                j == ExitOf(i)
            IN /\ node.variable \in DOMAIN trace[i].scope =>
                     /\ j # 0
                     /\ trace[j].scope = trace[i].scope
               /\ j # 0 =>
                     /\ trace[j].ctx = trace[i].ctx
                     /\ node.variable \notin DOMAIN trace[i].scope =>
                           /\ Bound(e, trace[i].scope)
                           /\ trace[j].scope
                                 = Put(trace[i].scope, node.variable,
                                       ValueIn(e, trace[i].scope))
                     /\ DefaultExecute(trace[i].node, StateAt(j)) = StateAt(j)

\* The default returned with the variable bound beforehand, its expression
\* naming an unbound variable.
C5_Witness ==
    \E i \in Events :
        /\ Is(i, "exit", "execute") /\ trace[i].node = 2
        /\ nodes[2].expression = <<Name("p")>>
        /\ "p" \notin DOMAIN scope0
        /\ scope0["y"] = Str("10")
        /\ trace[i].scope["y"] = Str("10")

\* The keywords a displayable has of its own at construction call i: those
\* SLBlock.keywords left in its context (event i - 1), less id and at,
\* with the default style and the scope.
OwnKeywords(i) ==
    LET node == nodes[trace[i].node]
        pre == trace[i - 1].ctx.keywords
        named == [k \in (DOMAIN pre) \ {"id", "at"} |-> pre[k]]
        styled == IF "style" \notin DOMAIN pre /\ node.style # <<>>
                  THEN Put(named, "style",
                           <<"#style">> \o trace[i - 1].ctx.style_prefix \o node.style)
                  ELSE named
    IN IF node.scope THEN Put(styled, "scope", ScopeRef) ELSE styled

\* The entry of widget_properties for the id of construction call i; the
\* empty mapping when there is no id or no entry.
OverrideEntry(i) ==
    LET pre == trace[i - 1].ctx.keywords
    IN IF "id" \in DOMAIN pre /\ pre["id"] \in DOMAIN widget_properties
       THEN widget_properties[pre["id"]]
       ELSE EmptyMap

\* C6: the construction function gets every key of the widget_properties
\* entry of the node's id with the entry's value, whatever the node gave
\* that key, and every other key with the node's own value; without an id
\* or an entry it gets the node's own keywords.
C6_WidgetOverride ==
    \A i \in Events :
        trace[i].ev = "call" =>
            /\ Is(i - 1, "exit", "keywords") /\ trace[i - 1].node = trace[i].node
            /\ DOMAIN trace[i].kw = (DOMAIN OwnKeywords(i)) \cup (DOMAIN OverrideEntry(i))
            /\ \A k \in DOMAIN OverrideEntry(i) : trace[i].kw[k] = OverrideEntry(i)[k]
            /\ \A k \in (DOMAIN OwnKeywords(i)) \ (DOMAIN OverrideEntry(i)) :
                  trace[i].kw[k] = OwnKeywords(i)[k]

\* A displayable with id "w" and color "red" was constructed with the
\* entry's color and style.
C6_Witness ==
    \E i \in Events :
        /\ trace[i].ev = "call" /\ trace[i].node = 4
        /\ nodes[4].keyword = WindowKeyword(1)
        /\ OwnKeywords(i)["color"] # Str("blue")
        /\ trace[i].kw["color"] = Str("blue")
        /\ trace[i].kw["style"] = Str("s")

\* C7: the keywords passed to a construction function never contain id or
\* at.
C7_NoReservedKeywords ==
    \A i \in Events :
        trace[i].ev = "call" =>
            /\ "id" \notin DOMAIN trace[i].kw
            /\ "at" \notin DOMAIN trace[i].kw

\* C8: a dynamic keyword whose expression is bound in context.scope is
\* passed with the value it has in context.scope at that time.
C8_KeywordsInScope ==
    \A i \in Events :
        trace[i].ev = "call" =>
            \A k \in 1..Len(nodes[trace[i].node].keyword) :
                LET kw == nodes[trace[i].node].keyword[k]
                IN (/\ ~is_constant(kw[2])
                    /\ Bound(kw[2], trace[i].scope)
                    /\ kw[1] \in DOMAIN trace[i].kw
                    /\ kw[1] \notin DOMAIN OverrideEntry(i))
                      => trace[i].kw[kw[1]] = ValueIn(kw[2], trace[i].scope)

\* C9: execute and keywords leave every node as prepare left it.
C9_NodesUnchanged == nprep > 0 => nodes = nodes0

\* The tree as it was built: the attributes prepare sets are not there yet.
Unprepared(ns) ==
    [id \in DOMAIN ns |->
        [ns[id] EXCEPT !.keyword_values = Absent, !.keyword_exprs = Absent,
                       !.positional_values = Absent, !.positional_exprs = Absent,
                       !.prepared_entries = <<>>,
                       !.expression_value = Absent, !.expression_expr = Absent,
                       !.expr = Absent]]

\* What executing the tree in scope sc gives when it was prepared once.
PreparedOnce(sc) == Run(Prepare(Root, Unprepared(nodes0)), sc, EmptyMap, <<>>)

\* C10: the first execute after any number of prepares makes the
\* construction calls, and leaves the context.children, the scope and the
\* widgets, that it makes and leaves after one prepare; the prepared
\* entries of an if statement are those of one prepare.
C10_PrepareTwice ==
    /\ nprep > 0 =>
          \A id \in DOMAIN nodes0 :
              nodes0[id].prepared_entries
                  = Prepare(Root, Unprepared(nodes0))[id].prepared_entries
    /\ (nprep > 0 /\ nexec = 1 /\ last = "execute") =>
          /\ trace = PreparedOnce(scope0).trace
          /\ context = PreparedOnce(scope0).ctx
          /\ scope = PreparedOnce(scope0).scope
          /\ widgets = PreparedOnce(scope0).widgets
          /\ err = PreparedOnce(scope0).err

\* A screen with a default, a displayable with an if and a for statement
\* under it and a second displayable was prepared twice and then executed.
C10_Witness ==
    /\ nprep = 2 /\ nexec = 1 /\ last = "execute" /\ err = NoErr
    /\ nodes[Root].children = <<2, 4, 12>>
    /\ Len(context.children) = 2
    /\ Len(context.children[1].kids) = 4

\* A node whose keywords method is SLBlock.keywords.
KeywordBlock(n) == nodes[n].kind \in {"block", "displayable"}

\* The declarations of key k on node n: all, the constant, the dynamic ones.
Declarations(n, k) == {d \in 1..Len(nodes[n].keyword) : nodes[n].keyword[d][1] = k}
ConstDeclarations(n, k) == {d \in Declarations(n, k) : is_constant(nodes[n].keyword[d][2])}
DynDeclarations(n, k) == Declarations(n, k) \ ConstDeclarations(n, k)

Last(S) == CHOOSE d \in S : \A e \in S : e <= d

\* The value node n gives key k when its names have the values of scope sc
\* (of the store when sc does not bind them): that of its last dynamic
\* declaration when it has one, of its last constant one otherwise.
Given(n, k, sc) ==
    IF DynDeclarations(n, k) # {}
    THEN ValueIn(nodes[n].keyword[Last(DynDeclarations(n, k))][2], Update(store, sc))
    ELSE nodes[n].keyword[Last(ConstDeclarations(n, k))][2].v

\* The runs of SLBlock.keywords that a run entered at event i and returned
\* at event j reached by recursion.
Reached(i, j) ==
    {e \in Events : i < e /\ e < j /\ Is(e, "enter", "keywords")
                    /\ KeywordBlock(trace[e].node)}

\* The style prefix a style_group value gives.
PrefixOf(style_group) == IF style_group = None THEN <<>> ELSE style_group \o <<"_">>

Writes(e, v) ==
    \/ Is(e, "iter", "execute") /\ nodes[trace[e].node].variable = v
    \/ /\ Is(e, "exit", "execute")
       /\ nodes[trace[e].node].kind \in {"python", "default"}
       /\ nodes[trace[e].node].variable = v

\* The variables a screen writes.
Written == {nodes[n].variable : n \in {m \in DOMAIN nodes :
                                         nodes[m].kind \in {"python", "default", "for"}}}

\* C12: within one top-level execute there is one scope: it changes at the
\* writes of Python, Default and For nodes only, never on the way into or
\* out of a Displayable; a binding written at any depth has its value at
\* every later event until it is written again, also in later siblings of
\* the Displayable and outside it, where a dynamic positional argument gets
\* that value; and it is in the scope the execute leaves.
C12_SharedScope ==
    /\ \A k \in 1..(Len(trace) - 1) :
          trace[k + 1].scope # trace[k].scope => \E v \in Written : Writes(k + 1, v)
    /\ \A i \in Events : \A v \in Written :
          Writes(i, v) =>
              /\ v \in DOMAIN trace[i].scope
              /\ nodes[trace[i].node].kind = "python" =>
                    trace[i].scope[v] = nodes[trace[i].node].expression[1].v
              /\ \A e \in Events :
                    (i < e /\ \A w \in (i + 1)..e : ~Writes(w, v)) =>
                        /\ v \in DOMAIN trace[e].scope
                        /\ trace[e].scope[v] = trace[i].scope[v]
                        /\ trace[e].ev = "call" =>
                              \A k \in 1..Len(nodes[trace[e].node].positional) :
                                  nodes[trace[e].node].positional[k] = Name(v) =>
                                      trace[e].pos[k + Len(trace[e].pos)
                                                     - Len(nodes[trace[e].node].positional)]
                                          = trace[i].scope[v]
    /\ (last = "execute" /\ trace # <<>>) => scope = trace[Len(trace)].scope

\* The execute began with p false; a Python node under the window set p, a
\* loop under the window ran, and the label after the window was built with
\* the new p while x had the loop's last element.
C12_Witness ==
    /\ "p" \in DOMAIN scope0 /\ scope0["p"] = Str("0")
    /\ err = NoErr
    /\ {"p", "x"} \subseteq DOMAIN scope
    /\ scope["p"] = Str("1") /\ scope["x"] = Str("3")
    /\ \E i, c \in Events :
          /\ Is(i, "exit", "execute") /\ trace[i].node = 4
          /\ i < c
          /\ trace[c].ev = "call" /\ trace[c].node = 12
          /\ trace[c].pos[Len(trace[c].pos) - 1] = Str("1")
          /\ trace[c].scope["x"] = Str("3")

\* A run of SLDisplayable.execute that returned: its entry.
DisplayableRuns ==
    {i \in Events : /\ Is(i, "enter", "execute")
                    /\ nodes[trace[i].node].kind = "displayable"
                    /\ ExitOf(i) # 0}

\* The construction call of the run entered at event i.
CallOf(i) ==
    CHOOSE c \in Events : /\ i < c /\ c < ExitOf(i)
                          /\ trace[c].ev = "call" /\ trace[c].node = trace[i].node

\* The value of a reserved keyword among the keywords the run entered at i
\* gathered (SLBlock.keywords returns at the event before the call); None
\* when it is not there.
Gathered(i, k) ==
    IF k \in DOMAIN trace[CallOf(i) - 1].ctx.keywords
    THEN trace[CallOf(i) - 1].ctx.keywords[k]
    ELSE None

\* The element the run entered at event i constructed, with the children
\* its child context held when the last child returned.
Element(i) ==
    [fn |-> nodes[trace[i].node].displayable,
     pos |-> trace[CallOf(i)].pos,
     kw |-> trace[CallOf(i)].kw,
     kids |-> trace[ExitOf(i) - 1].ctx.children]

OpenDisplayables ==
    {i \in Events : /\ Is(i, "enter", "execute")
                    /\ nodes[trace[i].node].kind = "displayable"
                    /\ ExitOf(i) = 0}

\* What the registry holds after a transform raised at the end of the
\* history: the failing displayable's registration, made before the
\* transform was called, on top of what it held before.
AfterTransformError ==
    LET i == CHOOSE o \in OpenDisplayables : \A q \in OpenDisplayables : q <= o
        c == CHOOSE e \in Events : e > i /\ trace[e].ev = "call"
                                   /\ trace[e].node = trace[i].node
        kw == trace[c - 1].ctx.keywords
        before == trace[Len(trace) - 1]
    IN IF "id" \in DOMAIN kw
       THEN Put(before.widgets, kw["id"],
                [fn |-> nodes[trace[i].node].displayable, pos |-> trace[c].pos,
                 kw |-> trace[c].kw, kids |-> before.ctx.children])
       ELSE before.widgets

\* C14: an error raised while a tree is executed is the error the top-level
\* execute ends with, and nothing is executed after it; every
\* context.children only grows, and the root's is left as it was at the
\* failure; a Displayable that did not return added nothing to its
\* caller's context.children, and the registry is what it was before the
\* failure, but for the registration of a Displayable whose transform
\* raised.  A Displayable whose construction function, style or transform
\* raises does not return.
C14_ErrorPropagation ==
    /\ err = NoErr =>
          /\ \A e \in Events : trace[e].ev # "raise"
          /\ \A e \in Events : trace[e].ev = "enter" => ExitOf(e) # 0
    /\ err # NoErr =>
          /\ trace # <<>>
          /\ trace[Len(trace)].ev = "raise"
          /\ trace[Len(trace)].pos = <<<<err>>>>
          /\ \A e \in 1..(Len(trace) - 1) : trace[e].ev # "raise"
          /\ widgets = IF err = "TransformError" THEN AfterTransformError
                       ELSE trace[Len(trace) - 1].widgets
    /\ \A i \in DisplayableRuns :
          /\ ~construction_fails(nodes[trace[i].node].displayable)
          /\ ~transform_fails(Gathered(i, "at"))
          /\ "style" \in DOMAIN trace[CallOf(i)].kw =>
                trace[CallOf(i)].kw["style"] # <<"#style", "nostyle">>
    /\ \A e, f \in Events :
          (e < f /\ trace[e].ctx.id = trace[f].ctx.id) =>
              /\ Len(trace[e].ctx.children) <= Len(trace[f].ctx.children)
              /\ SubSeq(trace[f].ctx.children, 1, Len(trace[e].ctx.children))
                    = trace[e].ctx.children
    /\ trace # <<>> =>
          /\ context.id = 0
          /\ \A e \in Events :
                (trace[e].ctx.id = 0
                   /\ \A f \in Events : f > e => trace[f].ctx.id # 0) =>
                    context.children = trace[e].ctx.children
    /\ \A i \in OpenDisplayables :
          \A e \in Events :
              (e > i /\ trace[e].ctx.id = trace[i].ctx.id) =>
                  trace[e].ctx.children = trace[i].ctx.children

\* The transform of a displayable under the window raised after the label
\* was added to the root: the label is still there, the window is not, the
\* failing displayable is registered and the window is not.
C14_Witness ==
    /\ err = "TransformError"
    /\ Cardinality(OpenDisplayables) = 2
    /\ Len(context.children) = 1
    /\ context.children[1].fn = "label"
    /\ Str("k") \in DOMAIN widgets
    /\ Str("v") \notin DOMAIN widgets
    /\ nodes[4].keyword = WindowKeyword(3)

\* C15: every node has a serial, a node constructed later (nodes are
\* constructed in the order of their identities) has a greater one, so no
\* two nodes share one, and the counter has counted every construction.
C15_Serials ==
    /\ \A n \in DOMAIN nodes : nodes[n].serial # Absent
    /\ \A m, n \in DOMAIN nodes : m < n => nodes[m].serial[1] < nodes[n].serial[1]
    /\ serial = Cardinality(DOMAIN nodes)

\* C16: a Displayable with pass_context is constructed with its child
\* context and then the values of its declared positional expressions in
\* declared order, on every execute and for every shape of the list; and it
\* is constructed whenever the names in the list are bound.
C16_PassContext ==
    /\ \A i \in Events :
          (trace[i].ev = "call" /\ nodes[trace[i].node].pass_context) =>
              LET decl == nodes[trace[i].node].positional
              IN /\ Len(trace[i].pos) = Len(decl) + 1
                 /\ trace[i].pos[1] = CtxRef(trace[i].ctx.id)
                 /\ \A k \in 1..Len(decl) :
                       /\ Bound(decl[k], trace[i].scope)
                       /\ trace[i].pos[k + 1] = ValueIn(decl[k], trace[i].scope)
    /\ \A i \in Events :
          (/\ Is(i, "enter", "execute")
           /\ nodes[trace[i].node].kind = "displayable"
           /\ nodes[trace[i].node].pass_context
           /\ \A k \in 1..Len(nodes[trace[i].node].positional) :
                 Bound(nodes[trace[i].node].positional[k], trace[i].scope)) =>
              \E c \in Events : c > i /\ trace[c].ev = "call"
                                /\ trace[c].node = trace[i].node

\* C17: when a Displayable.execute returns and the keywords it gathered
\* held an id, the registry maps the id to the constructed element with
\* its children attached, and is otherwise what it was when the last child
\* returned; with an at, the registry holds that element and the caller's
\* context.children the transform's result on it.  Without an id the
\* registry is not written.
C17_Registry ==
    \A i \in DisplayableRuns :
        LET j == ExitOf(i)
        IN IF Gathered(i, "id") # None
           THEN /\ trace[j].widgets
                      = Put(trace[j - 1].widgets, Gathered(i, "id"), Element(i))
                /\ trace[j].widgets[Gathered(i, "id")].kids
                      = trace[j - 1].ctx.children
                /\ Gathered(i, "at") # None =>
                      /\ trace[j].ctx.children[Len(trace[j].ctx.children)]
                            = Transformed(Gathered(i, "at"), Element(i))
                      /\ trace[j].widgets[Gathered(i, "id")]
                            # trace[j].ctx.children[Len(trace[j].ctx.children)]
           ELSE trace[j].widgets = trace[j - 1].widgets

\* The window with id "v" and an at returned: the registry has the window
\* with its four children under "v", the root context the transform's
\* result.
C17_Witness ==
    /\ err = NoErr /\ last = "execute"
    /\ nodes[4].keyword = WindowKeyword(3)
    /\ Str("v") \in DOMAIN widgets
    /\ widgets[Str("v")].fn = "window"
    /\ Len(widgets[Str("v")].kids) = 4
    /\ \E k \in 1..Len(context.children) :
          context.children[k] = Transformed(Str("tf"), widgets[Str("v")])

\* C18: the construction of an imagemap pushing one entry (the identity of
\* the context it is constructed in) and no other construction pushing: in
\* a Displayable.execute that returns, the stack is at the construction
\* call what it was at the entry, is that plus the node's own entry (for an
\* imagemap) or that (for another node) whenever one of the node's own
\* children is entered or returns, and is after the return what it was at
\* the entry; so an imagemap pops once, its own entry, after its children,
\* and a top-level execute that succeeds leaves the stack as it found it.
C18_ImagemapStack ==
    /\ \A i \in DisplayableRuns :
          LET j == ExitOf(i)
              c == CallOf(i)
          IN /\ trace[c].stack = trace[i].stack
             /\ trace[j].stack = trace[i].stack
             /\ \A e \in (c + 1)..(j - 1) :
                   trace[e].ctx.id = trace[c].ctx.id =>
                       trace[e].stack
                           = IF nodes[trace[i].node].imagemap
                             THEN Append(trace[i].stack, trace[c].ctx.id)
                             ELSE trace[i].stack
             \* the element was appended, and then the entry popped
             /\ Len(trace[j].ctx.children) = Len(trace[i].ctx.children) + 1
    /\ (err = NoErr /\ trace # <<>>) => imagemap_stack = trace[1].stack

\* An imagemap under an imagemap: both entries were on the stack, the inner
\* one on top, and the execute left the stack as it found it.
C18_Witness ==
    /\ err = NoErr /\ last = "execute"
    /\ nodes[4].imagemap /\ nodes[13].imagemap
    /\ imagemap_stack = trace[1].stack
    /\ \E i \in DisplayableRuns : \E e \in Events :
          /\ trace[i].node = 4
          /\ i < e /\ e < ExitOf(i)
          /\ Len(trace[e].stack) = Len(trace[i].stack) + 1
          /\ \E f \in DisplayableRuns :
                /\ e < f /\ f < ExitOf(i)
                /\ nodes[trace[f].node].imagemap
                /\ trace[ExitOf(f)].stack = trace[e].stack

\* The nodes whose keywords are a Displayable's own: the node, and the
\* blocks of the entries of the If nodes under it with no Displayable in
\* between.
IfChildren(n) ==
    {f \in {nodes[n].children[k] : k \in 1..Len(nodes[n].children)} :
        nodes[f].kind = "if"}

RECURSIVE KeywordSources(_)
KeywordSources(n) ==
    {n} \cup UNION {UNION {KeywordSources(nodes[f].entries[e].block) :
                              e \in 1..Len(nodes[f].entries)} :
                       f \in IfChildren(n)}

\* C19: a Displayable is constructed with keys that are declared on its
\* keyword sources, are in the override entry, or are style and scope; its
\* style prefix differs from the inherited one, and it has a widget id or a
\* transform, only when one of its keyword sources declares style_group, id
\* or at.
C19_OwnKeywordsOnly ==
    \A c \in Events :
        trace[c].ev = "call" =>
            LET n == trace[c].node
                declared(k) == \E b \in KeywordSources(n) : Declarations(b, k) # {}
                entered == CHOOSE e \in Events :
                              /\ e < c /\ Is(e, "enter", "keywords")
                              /\ trace[e].node = n
                              /\ \A f \in (e + 1)..(c - 1) :
                                    ~(Is(f, "enter", "keywords") /\ trace[f].node = n)
            IN /\ \A k \in DOMAIN trace[c].kw :
                     \/ k \in {"style", "scope"}
                     \/ k \in DOMAIN OverrideEntry(c)
                     \/ declared(k)
               /\ trace[c - 1].ctx.style_prefix # trace[entered].ctx.style_prefix
                     => declared("style_group")
               /\ "id" \in DOMAIN trace[c - 1].ctx.keywords => declared("id")
               /\ "at" \in DOMAIN trace[c - 1].ctx.keywords => declared("at")

\* The entry taken by the run of SLIf.execute or SLIf.keywords entered at
\* event a; 0 when none was.
Branch(a) ==
    LET taken == {k \in a..ExitOf(a) : /\ trace[k].ev = "block"
                                       /\ trace[k].node = trace[a].node
                                       /\ trace[k].pass = trace[a].pass}
    IN IF taken = {} THEN 0 ELSE trace[CHOOSE k \in taken : TRUE].idx

\* The keywords passes over the If node of event x that came before x.
KeywordsRuns(x) ==
    {e \in 1..(x - 1) : Is(e, "enter", "keywords") /\ trace[e].node = trace[x].node}

\* C20: an If node under a Displayable takes in the execute pass the entry
\* it took in the keywords pass of the same Displayable.execute.
C20_SameBranch ==
    \A x \in Events :
        (/\ Is(x, "enter", "execute")
         /\ nodes[trace[x].node].kind = "if"
         /\ ExitOf(x) # 0
         /\ KeywordsRuns(x) # {}) =>
            Branch(x) = Branch(Last(KeywordsRuns(x)))

====
